---------------------------- MODULE Spec2Model ----------------------------
(***************************************************************************)
(* State-machine model of estimate_time.py: the batch driver               *)
(* (process_rows), the row processor (process_row), the content resolver   *)
(* (read_source), the inference client (ask_ollama_via_http) and the       *)
(* buffered output file opened by process_rows.                            *)
(*                                                                         *)
(* One run of main() is one behaviour.  The environment decides whether    *)
(* the input CSV / the output file / a cache file can be opened, what the  *)
(* inference service answers, and whether and when the operator presses    *)
(* Ctrl-C (KeyboardInterrupt).                                             *)
(***************************************************************************)
EXTENDS Integers, Sequences, FiniteSets, TLC

VARIABLES
    pc,           \* position of the single thread of control
    ask_repeats,  \* args.ask_repeats
    input_rows,   \* list returned by read_input_csv
    k,            \* 0-based index of the row the for-loop of process_rows is at
    code,         \* process_row: text returned by read_source
    i,            \* process_row: number of completed iterations of range(ask_repeats)
    seconds,      \* process_row: the list `seconds`
    buf,          \* output file: lines held in the in-process write buffer
    disk,         \* output file: lines that reached the file on disk
    exit_code,    \* process exit status (-1 while running)
    cause,        \* history: why the run ended
    abortPc,      \* history: pc at which the run was terminated
    last,         \* the answer the latest finished request of the row got
    reqs,         \* history: prompts posted for the current row
    reads         \* history: read_source calls made for the current row

vars == <<pc, ask_repeats, input_rows, k, code, i, seconds, buf, disk,
          exit_code, cause, abortPc, last, reqs, reads>>

---------------------------------------------------------------------------
(* Bounds of the model                                                     *)

MaxRows == 2

MaxRepeats == 2

\* Capacity, in lines, of the write buffer of the file object returned by
\* open(output_csv, "w") (io.DEFAULT_BUFFER_SIZE bytes in the program).
BufCap == 2

---------------------------------------------------------------------------
(* Inputs                                                                  *)

FooRow == [file_path |-> "Foo.java", measures |-> "42"]

BarRow == [file_path |-> "Bar.java", measures |-> "7"]

\* The data lines of an input CSV (columns file_path, measures): two
\* different files in either order, or the same file listed repeatedly.
CsvLines(first, second, n) == [j \in 1..n |-> IF j % 2 = 1 THEN first ELSE second]

CsvFiles ==
    { CsvLines(FooRow, BarRow, n) : n \in 0..MaxRows }
        \cup { CsvLines(BarRow, FooRow, n) : n \in 0..MaxRows }
        \cup { CsvLines(FooRow, FooRow, n) : n \in 0..MaxRows }

\* Headers an input CSV may have: csv.DictReader keys every row by the header.
Headers == { {"file_path", "measures"}, {"file_path"}, {"measures"} }

DictRow(cols, r) == [c \in cols |-> r[c]]

\* What list(csv.DictReader(f)) may return (line 49-50)
InputTables ==
    { [j \in 1..Len(t) |-> DictRow(cols, t[j])] : t \in CsvFiles, cols \in Headers }

---------------------------------------------------------------------------
(* Content resolver                                                        *)

\* hashlib.sha256(file_path.encode()).hexdigest(), abbreviated to 8 digits
Sha256Hex(p) ==
    CASE p = "Foo.java" -> "d85722b3"
      [] p = "Bar.java" -> "c02241d0"

CachePath(p) == <<"cache_dir", Sha256Hex(p), ".txt">>

\* The content cache: text stored under each cache path.
CacheFiles(path) ==
    CASE path[2] = "d85722b3" -> "class Foo {}"
      [] path[2] = "c02241d0" -> "class Bar {}"

\* PROMPT.format(code=code)
Prompt(c) == <<"You are simulating a junior developer ...", c,
               "Return **only** a json object. Do not output anything else.">>


---------------------------------------------------------------------------
(* Inference service answers and their parsing                             *)

\* A JSON value that may sit in the field "seconds".  t is its JSON type;
\* n is the integer of an "int", the value in tenths of a "float", 1/0 of
\* a "bool"; s is the characters of a "str".
JInt(n)      == [t |-> "int",   n |-> n, s |-> <<>>]
JFloat(n)    == [t |-> "float", n |-> n, s |-> <<>>]
JStr(s)      == [t |-> "str",   n |-> 0, s |-> s]
JBool(b)     == [t |-> "bool",  n |-> IF b THEN 1 ELSE 0, s |-> <<>>]
JNull        == [t |-> "null",  n |-> 0, s |-> <<>>]
JNaN         == [t |-> "nan",   n |-> 0, s |-> <<>>]

SecondsValues ==
    { JInt(1), JInt(-1), JInt(-5),
      JFloat(19), JFloat(-55),
      JStr(<<"1">>), JStr(<<" ", "-", "5">>), JStr(<<"1", ".", "9">>),
      JBool(TRUE), JNull }

\* What one session.post can come to.  kind: the request timed out or the
\* transport failed ("timeout"), raise_for_status raised ("http_error"), or
\* a response text was returned ("text").  For a text, json tells what
\* json.loads makes of it: nothing ("malformed"), a value that is not an
\* object ("list"), or an object; has tells whether the object has the key
\* "seconds" and val is the value under it.
Raised(kind)  == [kind |-> kind,   json |-> "none",      has |-> FALSE, val |-> JNull]
Malformed     == [kind |-> "text", json |-> "malformed", has |-> FALSE, val |-> JNull]
NonObject     == [kind |-> "text", json |-> "list",      has |-> FALSE, val |-> JNull]
EmptyObject   == [kind |-> "text", json |-> "object",    has |-> FALSE, val |-> JNull]
ObjectWith(v) == [kind |-> "text", json |-> "object",    has |-> TRUE,  val |-> v]

NoResponse == Raised("none")

Responses ==
    { Raised("timeout"), Raised("http_error"), Malformed, NonObject, EmptyObject }
        \cup { ObjectWith(v) : v \in SecondsValues }

\* Outcome of a Python expression: a value, or an exception raised.
Ok(v)  == [ok |-> TRUE,  v |-> v]
Raise  == [ok |-> FALSE, v |-> 0]

RECURSIVE LStrip(_)
LStrip(s) == IF s # <<>> /\ Head(s) = " " THEN LStrip(Tail(s)) ELSE s

RECURSIVE RStrip(_)
RStrip(s) ==
    IF s # <<>> /\ s[Len(s)] = " " THEN RStrip(SubSeq(s, 1, Len(s) - 1)) ELSE s

Digits == {"0", "1", "2", "3", "4", "5", "6", "7", "8", "9"}

DigitVal(c) ==
    CASE c = "0" -> 0 [] c = "1" -> 1 [] c = "2" -> 2 [] c = "3" -> 3
      [] c = "4" -> 4 [] c = "5" -> 5 [] c = "6" -> 6 [] c = "7" -> 7
      [] c = "8" -> 8 [] c = "9" -> 9

RECURSIVE DigitsValue(_)
DigitsValue(s) ==
    IF s = <<>> THEN 0
    ELSE 10 * DigitsValue(SubSeq(s, 1, Len(s) - 1)) + DigitVal(s[Len(s)])

\* int(str): surrounding whitespace stripped, an optional sign, then digits.
IntOfStr(s) ==
    LET t    == RStrip(LStrip(s))
        neg  == t # <<>> /\ Head(t) = "-"
        sgn  == t # <<>> /\ Head(t) \in {"-", "+"}
        body == IF sgn THEN Tail(t) ELSE t
    IN  IF body # <<>> /\ \A j \in 1..Len(body) : body[j] \in Digits
        THEN Ok(IF neg THEN 0 - DigitsValue(body) ELSE DigitsValue(body))
        ELSE Raise

\* Mutant of IntOfFloat: rounds down instead of toward zero.
IntOfFloatFloor(n) == n \div 10

\* int(float): truncation toward zero (n is in tenths).
IntOfFloat(n) == IF n >= 0 THEN n \div 10 ELSE 0 - ((0 - n) \div 10)

\* int(output["seconds"]) for the value found under the key
PyInt(v) ==
    CASE v.t = "int"   -> Ok(v.n)
      [] v.t = "bool"  -> Ok(v.n)
      [] v.t = "float" -> Ok(IntOfFloat(v.n))
      [] v.t = "str"   -> IntOfStr(v.s)
      [] OTHER         -> Raise

\* Lines 87-89 of process_row for one answer: ask_ollama_via_http,
\* json.loads, output["seconds"], int().
ParseAttempt(resp) ==
    IF resp.kind # "text" THEN Raise
    ELSE IF resp.json # "object" THEN Raise
    ELSE IF ~resp.has THEN Raise
    ELSE PyInt(resp.val)

\* Mutant of AttemptResult: a failed attempt is recorded as 0.
AttemptResultZero(resp) ==
    LET r == ParseAttempt(resp) IN IF r.ok THEN r.v ELSE 0

\* Mutant of AttemptResult: a negative answer is taken for a failure.
AttemptResultClamped(resp) ==
    LET r == ParseAttempt(resp) IN IF r.ok /\ r.v >= 0 THEN r.v ELSE -1

\* The value the loop body appends to `seconds` (lines 86-92).
AttemptResult(resp) ==
    LET r == ParseAttempt(resp) IN IF r.ok THEN r.v ELSE -1

\* Mutant of RecordAttempt: a failed attempt records nothing.
RecordAttemptSkipFailed(secs, resp) ==
    IF ParseAttempt(resp).ok THEN Append(secs, ParseAttempt(resp).v) ELSE secs

\* `seconds` after one iteration of the loop body
RecordAttempt(secs, resp) == Append(secs, AttemptResult(resp))

\* Mutant of MoreAttempts: one iteration too many.
MoreAttemptsOffByOne(n, repeats) == n <= repeats

\* for _ in range(ask_repeats): is there another iteration
MoreAttempts(n, repeats) == n < repeats

---------------------------------------------------------------------------
(* Output file                                                             *)

\* Line 109: the header row
HeaderRow(repeats) ==
    <<"file_path", "our_seconds">> \o [j \in 1..repeats |-> <<"llm_seconds", j - 1>>]

\* Mutant of OutputLine: the two leading fields swapped.
OutputLineSwapped(file_path, row, secs) == <<row["measures"], file_path>> \o secs

\* Line 122: [file_path, row["measures"]] + seconds
OutputLine(file_path, row, secs) == <<file_path, row["measures"]>> \o secs

\* Mutant of FileWrite: a full buffer is dropped instead of flushed.
FileWriteDropBuffered(b, d, line) ==
    IF Len(b) + 1 > BufCap THEN << <<line>>, d >> ELSE << Append(b, line), d >>

\* f.write through the file object's buffer: a line that does not fit makes
\* the buffer's content go to disk first.  Returns <<buf', disk'>>.
FileWrite(b, d, line) ==
    IF Len(b) + 1 > BufCap THEN << <<line>>, d \o b >> ELSE << Append(b, line), d >>

\* Mutant of FileClose: the buffered lines are lost.
FileCloseDiscard(b, d) == << <<>>, d >>

\* f.close() on leaving the with block: the buffer is flushed.
FileClose(b, d) == << <<>>, d \o b >>

\* Everything written to the file object so far, on disk or still buffered.
Written == disk \o buf

---------------------------------------------------------------------------
(* The run                                                                 *)

Init ==
    /\ pc = "read_input"
    /\ ask_repeats \in 0..MaxRepeats
    /\ input_rows = <<>>
    /\ k = 0
    /\ code = ""
    /\ i = 0
    /\ seconds = <<>>
    /\ buf = <<>>
    /\ disk = <<>>
    /\ exit_code = -1
    /\ cause = "none"
    /\ abortPc = "none"
    /\ last = NoResponse
    /\ reqs = <<>>
    /\ reads = 0

\* Positions inside `with open(output_csv, "w") as f:` (lines 107-128)
InWith == {"for_row", "read_source", "for_attempt", "inflight", "writerow", "wrote"}

\* Positions inside the try block of process_rows (lines 113-122)
InTry == {"read_source", "for_attempt", "inflight", "writerow", "wrote"}

\* The process ends with `status`; an exception (SystemExit included) that
\* leaves the with block closes the output file on its way out.
Terminate(status, why) ==
    LET closed == IF pc \in InWith THEN FileClose(buf, disk) ELSE <<buf, disk>>
    IN  /\ pc' = "exit"
        /\ exit_code' = status
        /\ cause' = why
        /\ abortPc' = pc
        /\ buf' = closed[1]
        /\ disk' = closed[2]
        /\ last' = NoResponse
        /\ UNCHANGED <<ask_repeats, input_rows, k, code, i, seconds, reqs, reads>>

\* read_input_csv (lines 46-53, called at line 105)
ReadInputCsv ==
    /\ pc = "read_input"
    /\ \/ \E table \in InputTables :
            /\ input_rows' = table
            /\ pc' = "open_output"
            /\ UNCHANGED <<ask_repeats, k, code, i, seconds, buf, disk,
                           exit_code, cause, abortPc, last, reqs, reads>>
       \/ Terminate(1, "input")              \* except Exception: sys.exit(1)

\* open(output_csv, "w") and the header row (lines 107-109)
OpenOutput ==
    /\ pc = "open_output"
    /\ \/ LET w == FileWrite(<<>>, <<>>, HeaderRow(ask_repeats))
          IN  /\ buf' = w[1]
              /\ disk' = w[2]
              /\ pc' = "for_row"
              /\ UNCHANGED <<ask_repeats, input_rows, k, code, i, seconds, exit_code, cause, abortPc, last, reqs, reads>>
       \/ Terminate(1, "output")             \* OSError, not caught anywhere

\* for row in tqdm(input_rows): file_path = row["file_path"] (lines 111-112)
ForRow ==
    /\ pc = "for_row"
    /\ IF k < Len(input_rows)
       THEN IF "file_path" \in DOMAIN input_rows[k + 1]
            THEN /\ pc' = "read_source"
                 /\ UNCHANGED <<ask_repeats, input_rows, k, code, i, seconds, buf, disk, exit_code, cause, abortPc, last, reqs, reads>>
            ELSE Terminate(1, "exception")   \* KeyError outside the try block
       ELSE LET closed == FileClose(buf, disk)
            IN  /\ buf' = closed[1]
                /\ disk' = closed[2]
                /\ pc' = "session_close"
                /\ UNCHANGED <<ask_repeats, input_rows, k, code, i, seconds, exit_code, cause, abortPc, last, reqs, reads>>

\* process_row up to the loop: the cache path and read_source (lines 82-84,
\* 37-43)
ReadSource ==
    /\ pc = "read_source"
    /\ reads' = reads + 1
    /\ \/ /\ code' = CacheFiles(CachePath(input_rows[k + 1]["file_path"]))
          /\ seconds' = <<>>
          /\ i' = 0
          /\ pc' = "for_attempt"
          /\ UNCHANGED <<ask_repeats, input_rows, k, buf, disk,
                         exit_code, cause, abortPc, last, reqs>>
       \/ LET closed == FileClose(buf, disk)  \* sys.exit(1) in read_source
          IN  /\ pc' = "exit"
              /\ exit_code' = 1
              /\ cause' = "cache"
              /\ abortPc' = pc
              /\ buf' = closed[1]
              /\ disk' = closed[2]
              /\ last' = NoResponse
              /\ UNCHANGED <<ask_repeats, input_rows, k, code, i, seconds, reqs>>

\* for _ in range(ask_repeats): post the next request, or return seconds
\* (lines 85-87, 93)
ForAttempt ==
    /\ pc = "for_attempt"
    /\ IF MoreAttempts(i, ask_repeats)
       THEN /\ reqs' = Append(reqs, Prompt(code))
            /\ pc' = "inflight"
       ELSE /\ pc' = "writerow"
            /\ UNCHANGED reqs
    /\ last' = NoResponse
    /\ UNCHANGED <<ask_repeats, input_rows, k, code, i, seconds, buf, disk,
                   exit_code, cause, abortPc, reads>>

\* The pending request ends and the loop body finishes (lines 87-92)
Receive ==
    /\ pc = "inflight"
    /\ \E resp \in Responses :
          /\ seconds' = RecordAttempt(seconds, resp)
          /\ last' = resp
    /\ i' = i + 1
    /\ pc' = "for_attempt"
    /\ UNCHANGED <<ask_repeats, input_rows, k, code, buf, disk,
                   exit_code, cause, abortPc, reqs, reads>>

\* Mutant of WriteRow: a row that cannot be written is skipped.
WriteRowSkip ==
    /\ pc = "writerow"
    /\ IF "measures" \in DOMAIN input_rows[k + 1]
       THEN LET row == input_rows[k + 1]
                w   == FileWrite(buf, disk, OutputLine(row["file_path"], row, seconds))
            IN  /\ buf' = w[1]
                /\ disk' = w[2]
       ELSE UNCHANGED <<buf, disk>>
    /\ pc' = "wrote"
    /\ UNCHANGED <<ask_repeats, input_rows, k, code, i, seconds, exit_code, cause, abortPc, last, reqs, reads>>

\* writer.writerow([file_path, row["measures"]] + seconds) (line 122)
WriteRow ==
    /\ pc = "writerow"
    /\ IF "measures" \in DOMAIN input_rows[k + 1]
       THEN LET row == input_rows[k + 1]
                w   == FileWrite(buf, disk, OutputLine(row["file_path"], row, seconds))
            IN  /\ buf' = w[1]
                /\ disk' = w[2]
                /\ pc' = "wrote"
                /\ UNCHANGED <<ask_repeats, input_rows, k, code, i, seconds, exit_code, cause, abortPc, last, reqs, reads>>
       ELSE Terminate(1, "exception")        \* KeyError -> except Exception

\* The try block is left and the for loop goes to the next row
NextRow ==
    /\ pc = "wrote"
    /\ k' = k + 1
    /\ pc' = "for_row"
    /\ reqs' = <<>>
    /\ reads' = 0
    /\ UNCHANGED <<ask_repeats, input_rows, code, i, seconds, buf, disk,
                   exit_code, cause, abortPc, last>>

\* session.close() and the end of main (line 165)
SessionClose ==
    /\ pc = "session_close"
    /\ pc' = "exit"
    /\ exit_code' = 0
    /\ UNCHANGED <<ask_repeats, input_rows, k, code, i, seconds, buf, disk,
                   cause, abortPc, last, reqs, reads>>

\* Mutant of Interrupt: Ctrl-C is only looked at between rows.
InterruptBetweenRows ==
    /\ pc = "for_row"
    /\ Terminate(130, "interrupt")

\* The operator presses Ctrl-C: KeyboardInterrupt is raised at the current
\* position.  Inside the try block of process_rows it is caught at line 123
\* (no `except Exception` on the way catches it) and the handler calls
\* sys.exit(1); anywhere else it is not caught and the interpreter ends the
\* process with the status of an interrupted process (130).
Interrupt ==
    /\ pc # "exit"
    /\ Terminate(IF pc \in InTry THEN 1 ELSE 130, "interrupt")

Step ==
    \/ ReadInputCsv
    \/ OpenOutput
    \/ ForRow
    \/ ReadSource
    \/ ForAttempt
    \/ Receive
    \/ WriteRow
    \/ NextRow
    \/ SessionClose

Next == Step \/ Interrupt

Spec == Init /\ [][Next]_vars

---------------------------------------------------------------------------
(* Properties                                                              *)

\* The data lines handed to the output file so far (the header left out)
DataLines == IF Written = <<>> THEN <<>> ELSE Tail(Written)

\* Row k is being processed: its content is read or its requests are made
Processing == pc \in {"read_source", "for_attempt", "inflight"}

\* `lines` is the header followed by one complete line for each of the
\* first n input rows, in input order
HeaderAndRows(lines, n) ==
    /\ Len(lines) = n + 1
    /\ lines[1] = HeaderRow(ask_repeats)
    /\ \A j \in 1..n :
          /\ Len(lines[j + 1]) = 2 + ask_repeats
          /\ lines[j + 1][1] = input_rows[j]["file_path"]
          /\ lines[j + 1][2] = input_rows[j]["measures"]
          /\ \A a \in 3..(2 + ask_repeats) : lines[j + 1][a] \in Int

\* The run was terminated while row k was being handled
RowAborted ==
    /\ pc = "exit"
    /\ exit_code # 0
    /\ \/ abortPc \in InTry
       \/ abortPc = "for_row" /\ cause = "exception"

\* The latest attempt of the current row has just been recorded
JustRecorded == pc = "for_attempt" /\ last # NoResponse

\* C1: every data line written carries exactly ask_repeats attempt values
\* after file_path and our_seconds, whichever attempts failed.
C1_AttemptCount ==
    \A j \in 1..Len(DataLines) : Len(DataLines[j]) = 2 + ask_repeats

\* C1 witness: a line was written for a row all of whose (two or more)
\* attempts produced the sentinel.
C1_Witness ==
    /\ pc = "wrote"
    /\ ask_repeats >= 2
    /\ \A a \in 1..Len(seconds) : seconds[a] = -1
    /\ Len(DataLines) = k + 1
    /\ Len(DataLines[k + 1]) = 2 + ask_repeats

\* C2: the (file_path, our_seconds) pairs of the data lines written so far
\* are a prefix of the (file_path, measures) pairs of the input rows: input
\* order, nothing skipped or duplicated, both fields unchanged.
C2_PassThrough ==
    /\ Len(DataLines) <= Len(input_rows)
    /\ Len(DataLines) \in {k, k + 1}
    /\ \A j \in 1..Len(DataLines) :
          /\ DataLines[j][1] = input_rows[j]["file_path"]
          /\ DataLines[j][2] = input_rows[j]["measures"]

\* C2 witness: two lines written for two different input rows.
C2_Witness ==
    /\ Len(DataLines) = 2
    /\ input_rows[1] # input_rows[2]
    /\ DataLines[1][1] = "Bar.java"
    /\ DataLines[2][2] = "42"

C3_Step ==
    /\ (pc = "inflight" /\ last'.kind \in {"timeout", "http_error"})
          => /\ seconds' = Append(seconds, -1)
             /\ pc' = "for_attempt"
             /\ i' = i + 1
             /\ exit_code' = -1
             /\ k' = k
             /\ Written' = Written
    /\ (pc = "for_attempt" /\ i < ask_repeats /\ cause' # "interrupt")
          => /\ pc' = "inflight"
             /\ Len(reqs') = Len(reqs) + 1
             /\ seconds' = seconds

\* C3: when the inference client raises on an attempt, -1 is appended for
\* it, the values recorded before stay as they are, neither the row nor the
\* run ends, and every attempt still due is posted.
C3_SentinelOnRaise == [][C3_Step]_vars

\* C3 witness: the client raised on the second attempt; -1 was recorded
\* behind the value parsed for the first attempt.
C3_Witness ==
    /\ JustRecorded
    /\ last.kind \in {"timeout", "http_error"}
    /\ i = 2
    /\ seconds = <<1, -1>>

\* C4 as stated: when handling row k terminates the run, the file at exit
\* holds the header and exactly the complete lines of rows 0 .. k-1.
C4_Original ==
    RowAborted => buf = <<>> /\ HeaderAndRows(disk, k)

\* C4 amended: as stated when the run is terminated before row k's
\* writerow has returned; an interrupt raised after it has returned leaves
\* row k's complete line in the file as well.
C4_Amended ==
    RowAborted =>
        /\ buf = <<>>
        /\ HeaderAndRows(disk, IF abortPc = "wrote" THEN k + 1 ELSE k)

\* C4 witness: the cache file of the second row could not be read; the
\* file holds the header and the first row's line.
C4_Witness ==
    /\ pc = "exit"
    /\ cause = "cache"
    /\ k = 1
    /\ Len(disk) = 2
    /\ ask_repeats >= 1

\* C5: a run that has not ended can take a step; a run that has ended is
\* either Completed (exit code 0, a line on disk for every input row, no
\* fatal event) or Aborted (non-zero exit code, after a fatal error or an
\* interruption); a run is never aborted at the end of an attempt.
C5_Terminal ==
    /\ pc # "exit" => exit_code = -1 /\ cause = "none" /\ ENABLED Step
    /\ pc = "exit" =>
          \/ /\ exit_code = 0
             /\ cause = "none"
             /\ k = Len(input_rows)
             /\ buf = <<>>
             /\ HeaderAndRows(disk, Len(input_rows))
          \/ /\ exit_code > 0
             /\ cause \in {"input", "output", "cache", "exception", "interrupt"}
             /\ abortPc = "inflight" => cause = "interrupt"

\* C5 witness: a run over two rows completed with exit code 0 although
\* attempts of both rows failed.
C5_Witness ==
    /\ pc = "exit"
    /\ exit_code = 0
    /\ Len(input_rows) = 2
    /\ ask_repeats >= 1
    /\ disk[2][3] = -1
    /\ disk[3][3] = -1

\* C6 as stated: every attempt value is a non-negative integer or -1, and
\* -1 is recorded only for an attempt that failed.
C6_Original ==
    /\ \A j \in 1..Len(DataLines) : \A a \in 3..Len(DataLines[j]) :
          DataLines[j][a] >= 0 \/ DataLines[j][a] = -1
    /\ JustRecorded => (seconds[i] = -1 => ~ParseAttempt(last).ok)

\* C6 amended: every attempt value written is an integer; an attempt that
\* failed records -1, and an attempt that did not fail records the integer
\* int() makes of the field seconds, negative values and -1 included.
C6_Amended ==
    /\ \A j \in 1..Len(DataLines) : \A a \in 3..Len(DataLines[j]) :
          DataLines[j][a] \in Int
    /\ JustRecorded =>
          /\ ~ParseAttempt(last).ok => seconds[i] = -1
          /\ ParseAttempt(last).ok => seconds[i] = ParseAttempt(last).v

\* C6 witness: the answer {"seconds": -5} was recorded as -5, and the
\* answer {"seconds": -1} before it as -1.
C6_Witness ==
    /\ JustRecorded
    /\ last = ObjectWith(JInt(-5))
    /\ seconds = <<-1, -5>>

\* C7 as stated: while row k is processed the complete lines of the rows
\* before it are in the file on disk.
C7_Original ==
    (Processing /\ k >= 1) => HeaderAndRows(disk, k)

\* C7 amended: while row k is processed the complete lines of the rows
\* before it have been handed to the file object, on disk or still in its
\* buffer; once the file is closed they are all on disk.
C7_Amended ==
    /\ Processing => HeaderAndRows(Written, k)
    /\ pc = "session_close" => buf = <<>> /\ HeaderAndRows(disk, k)

\* C7 witness: a request of the second row is in flight while the first
\* row's line is still in the buffer and not on disk.
C7_Witness ==
    /\ pc = "inflight"
    /\ k = 1
    /\ Len(disk) < 2
    /\ Len(buf) = 2

\* C8 as stated: after an interruption that arrived while a request of row
\* k was in flight, row k's line has been written.
C8_Original ==
    (pc = "exit" /\ cause = "interrupt" /\ abortPc = "inflight")
        => HeaderAndRows(disk, k + 1)

\* C8 amended: an interruption can be taken while a request is in flight;
\* it ends the run there with exit code 1: the attempts of row k still due
\* are not made and the file holds the lines of the rows before k only.
C8_Amended ==
    /\ pc = "inflight" => ENABLED Interrupt
    /\ (pc = "exit" /\ cause = "interrupt" /\ abortPc = "inflight") =>
          /\ exit_code = 1
          /\ buf = <<>>
          /\ HeaderAndRows(disk, k)
          /\ Len(seconds) = i
          /\ Len(reqs) = i + 1
          /\ i < ask_repeats

\* C8 witness: the run was interrupted during the first of two requests of
\* the second row.
C8_Witness ==
    /\ pc = "exit"
    /\ cause = "interrupt"
    /\ abortPc = "inflight"
    /\ k = 1
    /\ ask_repeats = 2
    /\ Len(reqs) = 1
    /\ Len(disk) = 2

\* The answer is a JSON object whose field seconds is a JSON integer
IntegerSeconds(resp) ==
    resp.kind = "text" /\ resp.json = "object" /\ resp.has /\ resp.val.t = "int"

C9_Converted(v) ==
    CASE v.t = "int"   -> v.n
      [] v.t = "bool"  -> IF v.n = 1 THEN 1 ELSE 0
      [] v.t = "float" ->
            CHOOSE z \in -10..10 :
                IF v.n >= 0 THEN 10 * z <= v.n /\ v.n < 10 * (z + 1)
                            ELSE 10 * (z - 1) < v.n /\ v.n <= 10 * z
      [] v.t = "str"   ->
            CASE v.s = <<"1">>           -> 1
              [] v.s = <<" ", "-", "5">> -> -5
              [] OTHER                   -> -1
      [] OTHER         -> -1

C10_ReadOnceAskRepeats ==
    /\ reads <= 1
    /\ reqs # <<>> => reads = 1
    /\ pc \in {"for_attempt", "inflight", "writerow", "wrote"} =>
          /\ reads = 1
          /\ code = CacheFiles(CachePath(input_rows[k + 1]["file_path"]))
          /\ Len(reqs) = IF pc = "inflight" THEN i + 1 ELSE i
          /\ Len(reqs) <= ask_repeats
    /\ pc \in {"writerow", "wrote"} => Len(reqs) = ask_repeats
    /\ \A j \in 1..Len(reqs) : reqs[j] = Prompt(code)
    /\ cause = "cache" => pc = "exit" /\ reads = 1 /\ reqs = <<>>

\* C10 witness: a row was finished with two requests, the first of which
\* failed, after a single read.
C10_Witness ==
    /\ pc = "writerow"
    /\ ask_repeats = 2
    /\ Len(reqs) = 2
    /\ reqs[1] = reqs[2]
    /\ seconds[1] = -1
    /\ reads = 1

===========================================================================
